---- MODULE Spec2Model ----
(***************************************************************************)
(* Model of src/preprocessing.py: the per-image transform                  *)
(* preprocessing_unet (shapes, resize and padding arithmetic) and the      *)
(* data set assembly build_training_set (listing, split, enforcement of    *)
(* specific_ids, augmentation and writes).                                 *)
(***************************************************************************)
EXTENDS Integers, Sequences, FiniteSets, TLC

(***************************************************************************)
(* Python floats: IEEE-754 binary64, round to nearest, ties to even.       *)
(* A positive float is [bits, exp]: bits is the significand, most          *)
(* significant bit first (bits[1] = 1), exp the power of two of bits[1].   *)
(***************************************************************************)
MantBits == 53
LimbBits == (MantBits + 2) \div 3

\* the binary digits of q, most significant first (<<>> for 0)
BitLen(q) == IF q = 0 THEN 0 ELSE CHOOSE n \in 1..31 : 2^(n - 1) <= q /\ (n = 31 \/ q < 2^n)
IntBits(q) == [i \in 1..BitLen(q) |-> (q \div 2^(BitLen(q) - i)) % 2]

RECURSIVE BitsToInt(_)
BitsToInt(b) ==
    IF b = <<>> THEN 0
    ELSE 2 * BitsToInt(SubSeq(b, 1, Len(b) - 1)) + b[Len(b)]

IncBits(b) ==
    IF \A i \in 1..Len(b) : b[i] = 1
    THEN [bits |-> [i \in 1..Len(b) |-> 0], carry |-> 1]
    ELSE LET j == CHOOSE i \in 1..Len(b) : b[i] = 0 /\ \A h \in (i + 1)..Len(b) : b[h] = 1
         IN  [bits |-> [i \in 1..Len(b) |-> IF i < j THEN b[i] ELSE IF i = j THEN 1 ELSE 0],
              carry |-> 0]

Zeros(n) == [i \in 1..n |-> 0]

\* round the exact significand b (b[1] = 1, any length) to MantBits digits
RoundNearestEven(b, exp, sticky) ==
    IF Len(b) <= MantBits
    THEN [bits |-> b \o Zeros(MantBits - Len(b)), exp |-> exp]
    ELSE LET m     == SubSeq(b, 1, MantBits)
             guard == b[MantBits + 1]
             low   == sticky \/ \E i \in (MantBits + 2)..Len(b) : b[i] = 1
             up    == guard = 1 /\ (low \/ m[MantBits] = 1)
             inc   == IncBits(m)
         IN  IF ~up THEN [bits |-> m, exp |-> exp]
             ELSE IF inc.carry = 1
                  THEN [bits |-> <<1>> \o Zeros(MantBits - 1), exp |-> exp + 1]
                  ELSE [bits |-> inc.bits, exp |-> exp]

\* the digits of d, a number below 2^LimbBits, most significant first
LimbDigits(d) == [i \in 1..LimbBits |-> (d \div 2^(LimbBits - i)) % 2]

\* a / float(b) for positive integers a, b (b below 2^13): the quotient by long
\* division, four limbs after the point, rounded at its MantBits-th digit
FloatDiv(a, b) ==
    LET lead   == IntBits(a \div b)
        r0     == a % b
        d1     == (r0 * 2^LimbBits) \div b
        r1     == (r0 * 2^LimbBits) % b
        d2     == (r1 * 2^LimbBits) \div b
        r2     == (r1 * 2^LimbBits) % b
        d3     == (r2 * 2^LimbBits) \div b
        r3     == (r2 * 2^LimbBits) % b
        d4     == (r3 * 2^LimbBits) \div b
        r4     == (r3 * 2^LimbBits) % b
        digits == lead \o LimbDigits(d1) \o LimbDigits(d2) \o LimbDigits(d3) \o LimbDigits(d4)
        one    == CHOOSE i \in 1..Len(digits) :
                      digits[i] = 1 /\ \A j \in 1..(i - 1) : digits[j] = 0
    IN  RoundNearestEven(SubSeq(digits, one, Len(digits)), Len(lead) - one, r4 # 0)

\* the exact product of the significand b by the integer c, in three limbs
MulBits(b, c) ==
    LET w  == Zeros(3 * LimbBits - Len(b)) \o b
        l2 == BitsToInt(SubSeq(w, 1, LimbBits))
        l1 == BitsToInt(SubSeq(w, LimbBits + 1, 2 * LimbBits))
        l0 == BitsToInt(SubSeq(w, 2 * LimbBits + 1, 3 * LimbBits))
        p0 == l0 * c
        p1 == l1 * c + (p0 \div 2^LimbBits)
        p2 == l2 * c + (p1 \div 2^LimbBits)
    IN  IntBits(p2) \o LimbDigits(p1 % 2^LimbBits) \o LimbDigits(p0 % 2^LimbBits)

\* float(c) * f for a positive integer c
FloatMulInt(c, f) ==
    LET p == MulBits(f.bits, c)
    IN  RoundNearestEven(p, f.exp + (Len(p) - MantBits), FALSE)

\* int(f): truncation toward zero of a positive float
FloatToInt(f) ==
    IF f.exp < 0 THEN 0 ELSE BitsToInt(SubSeq(f.bits, 1, f.exp + 1))

(***************************************************************************)
(* Arrays are known by their shape and by the border copyMakeBorder gave   *)
(* them; pixel values are left to the imaging library.                     *)
(***************************************************************************)
Array(shape) == [shape |-> shape, border |-> <<>>, value |-> <<>>]
NoArray == Array(<<>>)

Raise(f, what) == [f EXCEPT !.pc = "error", !.error = what]

\* cv.resize(src, dsize): dsize is (width, height); an empty dsize is an error
cv_resize(src, dsize) ==
    Array(<<dsize[2], dsize[1]>> \o SubSeq(src.shape, 3, Len(src.shape)))

\* cv.copyMakeBorder(src, top, bottom, left, right, BORDER_CONSTANT, value)
copyMakeBorder(src, top, bottom, left, right, value) ==
    [shape  |-> <<src.shape[1] + top + bottom, src.shape[2] + left + right>>
                    \o SubSeq(src.shape, 3, Len(src.shape)),
     border |-> <<top, bottom, left, right>>,
     value  |-> value]

\* np.expand_dims(a, axis=2)
expand_dims(a) == [a EXCEPT !.shape = @ \o <<1>>]

\* make_gaussian(size): a size x size array
make_gaussian(size) == Array(<<size, size>>)

\* the frame of a call of preprocessing_unet whose files have been read
UnetFrame(mask_bool, im_shape, mask_shape, largest_dimension, desired_size) ==
    [pc |-> "resize", error |-> "", mask_bool |-> mask_bool,
     largest_dimension |-> largest_dimension, desired_size |-> desired_size,
     new_im |-> Array(im_shape),
     new_mask |-> IF mask_bool THEN Array(mask_shape) ELSE NoArray,
     rows |-> 0, columns |-> 0, dsize |-> <<>>,
     original_intensity |-> NoArray,
     delta_w |-> 0, delta_h |-> 0, top |-> 0, bottom |-> 0, left |-> 0, right |-> 0,
     im_5ch |-> NoArray]

\* int(float(other) * float(largest / float(major))), lines 106-107 and 113-114
ScaledSize(other, major, largest) ==
    FloatToInt(FloatMulInt(other, FloatDiv(largest, major)))

\* lines 102-117: resize so that the largest dimension is largest_dimension
UnetResize(f) ==
    LET rows    == f.new_im.shape[1]
        columns == f.new_im.shape[2]
        dsize   == IF rows >= columns
                   THEN <<ScaledSize(columns, rows, f.largest_dimension), f.largest_dimension>>
                   ELSE <<f.largest_dimension, ScaledSize(rows, columns, f.largest_dimension)>>
        g       == [f EXCEPT !.rows = rows, !.columns = columns, !.dsize = dsize]
    IN  IF f.pc # "resize" THEN f
        ELSE IF dsize[1] <= 0 \/ dsize[2] <= 0 THEN Raise(g, "cv2.error: resize")
        ELSE [g EXCEPT !.pc = "pad",
                       !.new_im = cv_resize(f.new_im, dsize),
                       !.new_mask = IF f.mask_bool THEN cv_resize(f.new_mask, dsize) ELSE @]

PadBefore_RoundedUp(delta) == (delta + 1) \div 2
PadAfter_SameHalf(delta) == delta \div 2

\* lines 127-128: the two halves of a padding amount
PadBefore(delta) == delta \div 2
PadAfter(delta) == delta - (delta \div 2)

\* lines 119-144: intensity channel, padding amounts and the three paddings
UnetPad(f) ==
    LET delta_w == f.desired_size - f.new_im.shape[2]
        delta_h == f.desired_size - f.new_im.shape[1]
        top     == PadBefore(delta_h)
        bottom  == PadAfter(delta_h)
        left    == PadBefore(delta_w)
        right   == PadAfter(delta_w)
        g       == [f EXCEPT !.delta_w = delta_w, !.delta_h = delta_h, !.top = top,
                             !.bottom = bottom, !.left = left, !.right = right]
        original_intensity == Array(<<f.new_im.shape[1], f.new_im.shape[2]>>)
    IN  IF f.pc # "pad" THEN f
        ELSE IF top < 0 \/ bottom < 0 \/ left < 0 \/ right < 0
        THEN Raise(g, "cv2.error: copyMakeBorder")
        ELSE [g EXCEPT !.pc = "concat",
                       !.original_intensity =
                           expand_dims(copyMakeBorder(original_intensity, top, bottom,
                                                      left, right, <<255>>)),
                       !.new_im = copyMakeBorder(f.new_im, top, bottom, left, right,
                                                 <<255, 255, 255>>),
                       !.new_mask = IF f.mask_bool
                                    THEN copyMakeBorder(f.new_mask, top, bottom, left,
                                                        right, <<0>>)
                                    ELSE @]

\* np.concatenate(arrays, axis=2): the other axes must agree
concatenate(arrays) ==
    IF \A i \in 1..Len(arrays) : SubSeq(arrays[i].shape, 1, 2) = SubSeq(arrays[1].shape, 1, 2)
    THEN Array(<<arrays[1].shape[1], arrays[1].shape[2],
                 arrays[1].shape[3] + arrays[2].shape[3] + arrays[3].shape[3]>>)
    ELSE NoArray

\* lines 146-156: gaussian channel, concatenation and return
UnetConcat(f) ==
    LET gauss  == expand_dims(make_gaussian(f.desired_size))
        im_5ch == concatenate(<<f.new_im, f.original_intensity, gauss>>)
    IN  IF f.pc # "concat" THEN f
        ELSE IF im_5ch = NoArray THEN Raise(f, "ValueError: concatenate")
        ELSE [f EXCEPT !.pc = "return", !.im_5ch = im_5ch]

\* lines 102-156 of preprocessing_unet, from the read files to the return
preprocessing_unet(mask_bool, im_shape, mask_shape, largest_dimension, desired_size) ==
    UnetConcat(UnetPad(UnetResize(
        UnetFrame(mask_bool, im_shape, mask_shape, largest_dimension, desired_size))))

(***************************************************************************)
(* build_training_set.  A file name is a sequence of tokens, so that the   *)
(* names the code builds by concatenation are built by concatenation here. *)
(***************************************************************************)
img_suffix == ".jpg"
mask_suffix == "_segmentation.png"
LICENSE == <<"LICENSE.txt">>
ATTRIBUTION == <<"ATTRIBUTION.txt">>

\* the default of specific_ids, lines 170-172: the stems of the modelled images
default_specific_ids ==
    <<"ISIC_0000031", "ISIC_0000060", "ISIC_0000073", "ISIC_0000074", "ISIC_0000121",
      "ISIC_0000166", "ISIC_0000355", "ISIC_0000395", "ISIC_0009944", "ISIC_0010047",
      "ISIC_0016064">>

\* list_ids[k].replace(img_suffix, ''), line 233
StripSuffix(name) == SelectSeq(name, LAMBDA t : t # img_suffix)

\* lines 223-233: the listing without the two text files, suffixes removed
ListIdsOf(listing) ==
    LET kept == SelectSeq(listing, LAMBDA e : e # LICENSE /\ e # ATTRIBUTION)
    IN  [i \in 1..Len(kept) |-> StripSuffix(kept[i])]

\* np.random.RandomState(seed).permutation(n), line 238: a function of seed and n
RECURSIVE PermFrom(_, _)
PermFrom(items, code) ==
    IF items = <<>> THEN <<>>
    ELSE LET i == (code % Len(items)) + 1
         IN  <<items[i]>> \o PermFrom(SubSeq(items, 1, i - 1) \o SubSeq(items, i + 1, Len(items)),
                                      code \div Len(items))
permutation(seed, n) == PermFrom([i \in 1..n |-> i], seed)

\* int(train_ratio * n), line 239, for train_ratio = num / den
TrainCount(train_ratio, n) == (train_ratio.num * n) \div train_ratio.den

\* lines 238-243: the partition of list_ids
SplitOf(list_ids, seed, train_ratio) ==
    LET n       == Len(list_ids)
        indices == permutation(seed, n)
        cut     == TrainCount(train_ratio, n)
    IN  [train |-> [i \in 1..cut |-> list_ids[indices[i]]],
         test  |-> [i \in 1..(n - cut) |-> list_ids[indices[cut + i]]]]

SwapOf_TrainSlotKept(partition, k, rd_idx, id_) ==
    [train |-> partition.train,
     test  |-> [partition.test EXCEPT ![rd_idx] = id_]]

\* lines 251-252: train[k] takes the id of test[rd_idx], test[rd_idx] takes id_
SwapOf(partition, k, rd_idx, id_) ==
    [train |-> [partition.train EXCEPT ![k] = partition.test[rd_idx]],
     test  |-> [partition.test EXCEPT ![rd_idx] = id_]]

imread_SkipsAbsent(dir, name) == TRUE

\* imread(dir + im_id + suffix), lines 98-100: the file must exist
imread(dir, name) == name \in dir

\* cv.flip(array, flipCode), lines 260-262
cv_flip(array, flipCode) == [array EXCEPT !.flip = <<flipCode>>]

\* imsave(path, array): the file of that name now holds the array
imsave(path, array) == path :> array

\* what preprocessing_unet returned for im_id: the image and its mask
Processed(im_id) ==
    [im   |-> [im_id |-> im_id, of |-> "im", flip |-> <<>>],
     mask |-> [im_id |-> im_id, of |-> "mask", flip |-> <<>>]]

Augmented_MaskFlippedOtherWay(r) ==
    [hflip_im |-> cv_flip(r.im, 0), hflip_mask |-> cv_flip(r.mask, 1),
     vflip_im |-> cv_flip(r.im, 1), vflip_mask |-> cv_flip(r.mask, 0),
     rot_im   |-> cv_flip(r.im, -1), rot_mask  |-> cv_flip(r.mask, -1)]

\* lines 260-262: the three flips of image and mask
Augmented(r) ==
    [hflip_im |-> cv_flip(r.im, 0), hflip_mask |-> cv_flip(r.mask, 0),
     vflip_im |-> cv_flip(r.im, 1), vflip_mask |-> cv_flip(r.mask, 1),
     rot_im   |-> cv_flip(r.im, -1), rot_mask  |-> cv_flip(r.mask, -1)]

TrainFiles_RotNamedVflip(im_id) ==
    LET r == Processed(im_id)
        a == Augmented(r)
    IN  imsave(<<"train", "vflip_">> \o im_id \o <<".tiff">>, a.rot_im) @@
        imsave(<<"train", "vflip_">> \o im_id \o <<mask_suffix>>, a.rot_mask) @@
        imsave(<<"train", "hflip_">> \o im_id \o <<mask_suffix>>, a.hflip_mask) @@
        imsave(<<"train", "hflip_">> \o im_id \o <<".tiff">>, a.hflip_im) @@
        imsave(<<"train">> \o im_id \o <<mask_suffix>>, r.mask) @@
        imsave(<<"train">> \o im_id \o <<".tiff">>, r.im)

\* lines 264-271: the eight files of a training id; a later imsave of a name
\* replaces the earlier one
TrainFiles(im_id) ==
    LET r == Processed(im_id)
        a == Augmented(r)
    IN  imsave(<<"train", "rot_">> \o im_id \o <<mask_suffix>>, a.rot_mask) @@
        imsave(<<"train", "rot_">> \o im_id \o <<".tiff">>, a.rot_im) @@
        imsave(<<"train", "vflip_">> \o im_id \o <<mask_suffix>>, a.vflip_mask) @@
        imsave(<<"train", "vflip_">> \o im_id \o <<".tiff">>, a.vflip_im) @@
        imsave(<<"train", "hflip_">> \o im_id \o <<mask_suffix>>, a.hflip_mask) @@
        imsave(<<"train", "hflip_">> \o im_id \o <<".tiff">>, a.hflip_im) @@
        imsave(<<"train">> \o im_id \o <<mask_suffix>>, r.mask) @@
        imsave(<<"train">> \o im_id \o <<".tiff">>, r.im)

\* lines 279-280: the two files of a test id
TestFiles(im_id) ==
    LET r == Processed(im_id)
    IN  imsave(<<"test">> \o im_id \o <<mask_suffix>>, r.mask) @@
        imsave(<<"test">> \o im_id \o <<".tiff">>, r.im)

(***************************************************************************)
(* Bounds of the inputs.                                                   *)
(***************************************************************************)
MaxDim == 11
MaxLargest == 15
MaxSlack == 1
MaxIds == 3
MaxSpecific == 2
MaxSeed == 5
RatioDen == 3
MaxBuildSize == 2

\* the scenario of the documentation: a 400 x 200 image with the default sizes
Scenario == <<400, 200, 250, 320>>

\* the raw images of a build, rows x columns x channels, and their masks
RawImage == <<2, 1, 3>>
RawMask == <<2, 1>>

Stems == {<<default_specific_ids[i]>> : i \in 1..MaxIds}
Stray == <<"README", ".md">>

\* what img_dir holds besides the images, in listing order: nothing, the two
\* text files, or the two text files and a file without img_suffix
OtherFiles == {<<>>, <<ATTRIBUTION, LICENSE>>, <<ATTRIBUTION, LICENSE, Stray>>}

\* the sequences without repetition over a set, in every order
RECURSIVE Orders(_)
Orders(S) ==
    IF S = {} THEN {<<>>}
    ELSE UNION {{<<e>> \o o : o \in Orders(S \ {e})} : e \in S}

\* the sorted listing of a set of stems: default_specific_ids is in name order
SortedStems(S) ==
    SelectSeq([i \in 1..MaxIds |-> <<default_specific_ids[i]>>], LAMBDA e : e \in S)

VARIABLES
    call,               \* the frame of a call of preprocessing_unet
    pc, error,          \* where build_training_set is; what it raised and in which loop
    dirs,               \* the directories that exist under output_path
    files,              \* the files under output_path: name :> content
    img_dir, mask_dir,  \* the names in img_dir (in listing order) and in mask_dir
    train_ratio, largest_dimension, desired_size, specific_ids, seed,
    list_ids, partition, k, s,
    run, first          \* the run number and the partition of the first run

unetVars == <<call>>
buildVars == <<pc, error, dirs, files, img_dir, mask_dir, train_ratio, largest_dimension,
               desired_size, specific_ids, seed, list_ids, partition, k, s, run, first>>
vars == <<call, pc, error, dirs, files, img_dir, mask_dir, train_ratio, largest_dimension,
          desired_size, specific_ids, seed, list_ids, partition, k, s, run, first>>

Empty == [x \in {} |-> 0]
NoError == [raised |-> "", at |-> ""]
OutputDirs == {"output_path", "train", "test"}

\* no call of preprocessing_unet is under way
IdleCall == [UnetFrame(FALSE, <<1, 1, 3>>, <<>>, 1, 1) EXCEPT !.pc = "idle"]

\* no build is under way
IdleBuild ==
    /\ pc = "idle" /\ error = NoError /\ dirs = {} /\ files = Empty
    /\ img_dir = <<>> /\ mask_dir = {}
    /\ train_ratio = [num |-> 0, den |-> 1]
    /\ largest_dimension = 1 /\ desired_size = 1
    /\ specific_ids = <<>> /\ seed = 0
    /\ list_ids = <<>> /\ partition = [train |-> <<>>, test |-> <<>>]
    /\ k = 0 /\ s = 0 /\ run = 1 /\ first = [train |-> <<>>, test |-> <<>>]

(***************************************************************************)
(* preprocessing_unet on its own                                           *)
(***************************************************************************)
UnetInputs ==
    {<<r, c, l, l + d>> : r \in 1..MaxDim, c \in 1..MaxDim, l \in 1..MaxLargest,
                          d \in (-1)..MaxSlack} \cup {Scenario}

InitUnet ==
    /\ IdleBuild
    /\ \E in \in UnetInputs, mask_bool \in BOOLEAN :
         \E mask_shape \in IF mask_bool THEN {<<in[1], in[2]>>, <<1, 1>>} ELSE {<<>>} :
           /\ in[4] >= 1
           /\ call = UnetFrame(mask_bool, <<in[1], in[2], 3>>, mask_shape, in[3], in[4])

Resize ==
    /\ call.pc = "resize"
    /\ call' = UnetResize(call)
    /\ UNCHANGED buildVars

Pad ==
    /\ call.pc = "pad"
    /\ call' = UnetPad(call)
    /\ UNCHANGED buildVars

Concat ==
    /\ call.pc = "concat"
    /\ call' = UnetConcat(call)
    /\ UNCHANGED buildVars

NextUnet == Resize \/ Pad \/ Concat

SpecUnet == InitUnet /\ [][NextUnet]_vars

(***************************************************************************)
(* build_training_set                                                      *)
(***************************************************************************)
Init ==
    /\ call = IdleCall
    /\ pc = "mkdir" /\ error = NoError /\ files = Empty
    /\ dirs = {}
    /\ \E S \in SUBSET Stems, others \in OtherFiles :
         /\ Cardinality(S) + Len(SelectSeq(others, LAMBDA e : e = Stray)) <= MaxIds
         /\ img_dir = others \o [i \in 1..Cardinality(S) |->
                                     SortedStems(S)[i] \o <<img_suffix>>]
         /\ \E M \in SUBSET S :
              /\ Cardinality(S \ M) <= 1
              /\ mask_dir = {m \o <<mask_suffix>> : m \in M}
    /\ \E num \in 0..RatioDen : train_ratio = [num |-> num, den |-> RatioDen]
    /\ desired_size = MaxBuildSize
    /\ largest_dimension \in (MaxBuildSize - 1)..(MaxBuildSize + 1)
    /\ \E S \in SUBSET {<<default_specific_ids[i]>> : i \in 1..MaxSpecific} :
         specific_ids \in Orders(S)
    /\ seed \in 0..MaxSeed
    /\ list_ids = <<>> /\ partition = [train |-> <<>>, test |-> <<>>]
    /\ k = 0 /\ s = 0 /\ run = 1 /\ first = [train |-> <<>>, test |-> <<>>]

\* lines 214-220
MakeDirs ==
    /\ pc = "mkdir"
    /\ dirs' = dirs \cup OutputDirs
    /\ pc' = "list"
    /\ UNCHANGED <<call, error, files, img_dir, mask_dir, train_ratio, largest_dimension,
                   desired_size, specific_ids, seed, list_ids, partition, k, s, run, first>>

\* lines 222-233
ListIds ==
    /\ pc = "list"
    /\ list_ids' = ListIdsOf(img_dir)
    /\ pc' = "split"
    /\ UNCHANGED <<call, error, dirs, files, img_dir, mask_dir, train_ratio,
                   largest_dimension, desired_size, specific_ids, seed, partition, k, s,
                   run, first>>

\* where the enforcement pass goes after the pair (k, s)
AfterPair(kk, ss) ==
    IF ss < Len(specific_ids) THEN [pc |-> "enforce", k |-> kk, s |-> ss + 1]
    ELSE IF kk < Len(partition.train) THEN [pc |-> "enforce", k |-> kk + 1, s |-> 1]
    ELSE [pc |-> "train", k |-> 1, s |-> 0]

\* lines 235-247
Split ==
    /\ pc = "split"
    /\ partition' = SplitOf(list_ids, seed, train_ratio)
    /\ IF specific_ids # <<>> /\ Len(partition'.train) > 0
       THEN pc' = "enforce" /\ k' = 1 /\ s' = 1
       ELSE pc' = "train" /\ k' = 1 /\ s' = 0
    /\ UNCHANGED <<call, error, dirs, files, img_dir, mask_dir, train_ratio,
                   largest_dimension, desired_size, specific_ids, seed, list_ids, run, first>>

\* lines 248-249, the ids differ
EnforceSkip ==
    /\ pc = "enforce"
    /\ specific_ids[s] # partition.train[k]
    /\ pc' = AfterPair(k, s).pc /\ k' = AfterPair(k, s).k /\ s' = AfterPair(k, s).s
    /\ UNCHANGED <<call, error, dirs, files, img_dir, mask_dir, train_ratio,
                   largest_dimension, desired_size, specific_ids, seed, list_ids,
                   partition, run, first>>

\* lines 249-252: np.random.randint draws from the global, unseeded generator
EnforceSwap ==
    /\ pc = "enforce"
    /\ specific_ids[s] = partition.train[k]
    /\ Len(partition.test) > 0
    /\ \E rd_idx \in 1..Len(partition.test) :
         partition' = SwapOf(partition, k, rd_idx, specific_ids[s])
    /\ pc' = AfterPair(k, s).pc /\ k' = AfterPair(k, s).k /\ s' = AfterPair(k, s).s
    /\ UNCHANGED <<call, error, dirs, files, img_dir, mask_dir, train_ratio,
                   largest_dimension, desired_size, specific_ids, seed, list_ids, run, first>>

\* line 250 with an empty test set: np.random.randint(0) raises ValueError
EnforceFail ==
    /\ pc = "enforce"
    /\ specific_ids[s] = partition.train[k]
    /\ Len(partition.test) = 0
    /\ pc' = "error" /\ error' = [raised |-> "ValueError: randint", at |-> "enforce"]
    /\ UNCHANGED <<call, dirs, files, img_dir, mask_dir, train_ratio, largest_dimension,
                   desired_size, specific_ids, seed, list_ids, partition, k, s, run, first>>

\* preprocessing_unet(im_id, True, ...), lines 98-156, as build_training_set calls it
UnetCall(im_id) ==
    IF ~imread({img_dir[i] : i \in 1..Len(img_dir)}, im_id \o <<img_suffix>>)
    THEN Raise(IdleCall, "FileNotFoundError: image")
    ELSE IF ~imread(mask_dir, im_id \o <<mask_suffix>>)
    THEN Raise(IdleCall, "FileNotFoundError: mask")
    ELSE preprocessing_unet(TRUE, RawImage, RawMask, largest_dimension, desired_size)

\* lines 254-271, one id of the training set
Train ==
    /\ pc = "train"
    /\ k <= Len(partition.train)
    /\ LET r == UnetCall(partition.train[k])
       IN  IF r.pc = "error"
           THEN /\ pc' = "error" /\ error' = [raised |-> r.error, at |-> "train"]
                /\ UNCHANGED <<files, k>>
           ELSE /\ files' = TrainFiles(partition.train[k]) @@ files
                /\ k' = k + 1
                /\ UNCHANGED <<pc, error>>
    /\ UNCHANGED <<call, dirs, img_dir, mask_dir, train_ratio, largest_dimension,
                   desired_size, specific_ids, seed, list_ids, partition, s, run, first>>

\* line 255, the training loop ends
TrainEnd ==
    /\ pc = "train"
    /\ k > Len(partition.train)
    /\ pc' = "test" /\ k' = 1
    /\ UNCHANGED <<call, error, dirs, files, img_dir, mask_dir, train_ratio,
                   largest_dimension, desired_size, specific_ids, seed, list_ids,
                   partition, s, run, first>>

\* lines 273-280, one id of the test set
Test ==
    /\ pc = "test"
    /\ k <= Len(partition.test)
    /\ LET r == UnetCall(partition.test[k])
       IN  IF r.pc = "error"
           THEN /\ pc' = "error" /\ error' = [raised |-> r.error, at |-> "test"]
                /\ UNCHANGED <<files, k>>
           ELSE /\ files' = TestFiles(partition.test[k]) @@ files
                /\ k' = k + 1
                /\ UNCHANGED <<pc, error>>
    /\ UNCHANGED <<call, dirs, img_dir, mask_dir, train_ratio, largest_dimension,
                   desired_size, specific_ids, seed, list_ids, partition, s, run, first>>

\* line 274, the test loop ends and build_training_set returns
TestEnd ==
    /\ pc = "test"
    /\ k > Len(partition.test)
    /\ pc' = "done"
    /\ UNCHANGED <<call, error, dirs, files, img_dir, mask_dir, train_ratio,
                   largest_dimension, desired_size, specific_ids, seed, list_ids,
                   partition, k, s, run, first>>

Next ==
    \/ MakeDirs \/ ListIds \/ Split
    \/ EnforceSkip \/ EnforceSwap \/ EnforceFail
    \/ Train \/ TrainEnd \/ Test \/ TestEnd

Spec == Init /\ [][Next]_vars
(***************************************************************************)
(* The split run twice with the same arguments                             *)
(***************************************************************************)
\* build_training_set is called again with the arguments of the first call
Rerun ==
    /\ run = 1
    /\ pc = "train" /\ k = 1
    /\ first' = partition
    /\ run' = 2
    /\ pc' = "mkdir"
    /\ list_ids' = <<>> /\ partition' = [train |-> <<>>, test |-> <<>>]
    /\ k' = 0 /\ s' = 0
    /\ UNCHANGED <<call, error, dirs, files, img_dir, mask_dir, train_ratio,
                   largest_dimension, desired_size, specific_ids, seed>>

NextRerun ==
    \/ MakeDirs \/ ListIds \/ Split
    \/ EnforceSkip \/ EnforceSwap \/ EnforceFail
    \/ Rerun

SpecRerun == Init /\ [][NextRerun]_vars

(***************************************************************************)
(* The claims                                                              *)
(***************************************************************************)
Range(q) == {q[i] : i \in 1..Len(q)}
IsInjective(q) == \A i, j \in 1..Len(q) : q[i] = q[j] => i = j

\* the enforcement pass of this run has finished
Enforced == pc \in {"train", "test", "done"}

\* the split of this run has been made
SplitMade == pc \in {"enforce", "train", "test", "done", "error"}

\* C1: once the enforcement pass has finished, every id of specific_ids that is
\* among the listed ids is in partition['test'] and not in partition['train'].
C1_SpecificIdsInTest ==
    Enforced =>
        \A i \in 1..Len(specific_ids) :
            specific_ids[i] \in Range(list_ids) =>
                /\ specific_ids[i] \in Range(partition.test)
                /\ specific_ids[i] \notin Range(partition.train)

C3_SameSplitTwice ==
    (run = 2 /\ Enforced) => partition = first

\* the call of preprocessing_unet has ended (returned or raised)
CallEnded == call.pc \in {"return", "error"}

\* preprocessing_unet returned arrays of the desired size
ReturnedDesiredSize ==
    /\ call.pc = "return"
    /\ call.im_5ch.shape = <<call.desired_size, call.desired_size, 5>>
    /\ call.mask_bool => call.new_mask.shape = <<call.desired_size, call.desired_size>>
    /\ call.dsize[2] + call.top + call.bottom = call.desired_size
    /\ call.dsize[1] + call.left + call.right = call.desired_size

\* C4 as stated: for every raw size and every pair of positive sizes,
\* preprocessing_unet returns an image of shape (desired_size, desired_size, 5)
\* and a mask of shape (desired_size, desired_size).
C4_AlwaysDesiredSize == CallEnded => ReturnedDesiredSize

\* C4 as amended: when largest_dimension <= desired_size and the resize target
\* is at least one pixel wide and high, preprocessing_unet returns an image of
\* shape (desired_size, desired_size, 5) and a mask of shape (desired_size,
\* desired_size); in every other case it raises and returns nothing.
C4_DesiredSizeWhenPadded ==
    CallEnded =>
        IF /\ call.largest_dimension <= call.desired_size
           /\ call.dsize[1] >= 1 /\ call.dsize[2] >= 1
        THEN ReturnedDesiredSize
        ELSE call.pc = "error"

\* C4, witness: a call on an image that is not square returned image and mask
C4_Witness ==
    /\ call.pc = "return" /\ call.mask_bool
    /\ call.rows # call.columns
    /\ call.largest_dimension < call.desired_size

\* C9: after the resize step the larger side is largest_dimension, the other
\* side is floor(other * largest_dimension / larger), and the mask has the
\* spatial size of the image.
C9_ResizeFloor ==
    call.pc = "pad" =>
        LET h == call.new_im.shape[1]
            w == call.new_im.shape[2]
        IN  /\ IF call.rows >= call.columns
               THEN /\ h = call.largest_dimension
                    /\ w * call.rows <= call.columns * call.largest_dimension
                    /\ (w + 1) * call.rows > call.columns * call.largest_dimension
               ELSE /\ w = call.largest_dimension
                    /\ h * call.columns <= call.rows * call.largest_dimension
                    /\ (h + 1) * call.columns > call.rows * call.largest_dimension
            /\ call.mask_bool => call.new_mask.shape = <<h, w>>

\* the padding amounts of the call have been computed
PadComputed ==
    \/ call.pc \in {"concat", "return"}
    \/ call.pc = "error" /\ call.error = "cv2.error: copyMakeBorder"

\* C10: top = floor(delta_h / 2), bottom = delta_h - top, left = floor(delta_w / 2),
\* right = delta_w - left, with delta_h and delta_w the desired size minus the
\* resized height and width; the same four amounts pad the intensity channel
\* (255), the RGB image (255, 255, 255) and the mask (0); a 400 x 200 image with
\* the default sizes gets top = 35, bottom = 35, left = 97, right = 98.
C10_PaddingAmounts ==
    PadComputed =>
        /\ call.delta_h = call.desired_size - call.dsize[2]
        /\ call.delta_w = call.desired_size - call.dsize[1]
        /\ 2 * call.top <= call.delta_h /\ call.delta_h <= 2 * call.top + 1
        /\ 2 * call.left <= call.delta_w /\ call.delta_w <= 2 * call.left + 1
        /\ call.top + call.bottom = call.delta_h
        /\ call.left + call.right = call.delta_w
        /\ call.bottom - call.top \in {0, 1}
        /\ call.right - call.left \in {0, 1}
        /\ call.pc # "error" =>
             LET amounts == <<call.top, call.bottom, call.left, call.right>>
             IN  /\ call.original_intensity.border = amounts
                 /\ call.original_intensity.value = <<255>>
                 /\ call.new_im.border = amounts
                 /\ call.new_im.value = <<255, 255, 255>>
                 /\ call.mask_bool => /\ call.new_mask.border = amounts
                                      /\ call.new_mask.value = <<0>>
        /\ <<call.rows, call.columns, call.largest_dimension, call.desired_size>> = Scenario
             => <<call.top, call.bottom, call.left, call.right>> = <<35, 35, 97, 98>>

\* C10, witness: the scenario's call has padded image and mask
C10_Witness ==
    /\ call.pc = "return" /\ call.mask_bool
    /\ <<call.rows, call.columns, call.largest_dimension, call.desired_size>> = Scenario
    /\ call.right = call.left + 1

\* the names under a directory of output_path
NamesUnder(dir) == {p \in DOMAIN files : p[1] = dir}
Prefixes == {<<>>, <<"hflip_">>, <<"vflip_">>, <<"rot_">>}
FlipOf(prefix) ==
    IF prefix = <<"hflip_">> THEN <<0>>
    ELSE IF prefix = <<"vflip_">> THEN <<1>>
    ELSE IF prefix = <<"rot_">> THEN <<-1>>
    ELSE <<>>
PairOf(dir, prefix, im_id) ==
    {<<dir>> \o prefix \o im_id \o <<".tiff">>, <<dir>> \o prefix \o im_id \o <<mask_suffix>>}

\* C5: after a run that completes, train/ holds exactly the four image/mask
\* pairs of every train id (plain, hflip_, vflip_, rot_, image and mask flipped
\* alike), test/ holds exactly the plain pair of every test id, and no id has
\* a file under the other directory.
C5_FilesOfCompletedRun ==
    pc = "done" =>
        /\ NamesUnder("train") =
             UNION {PairOf("train", x, id) : x \in Prefixes, id \in Range(partition.train)}
        /\ NamesUnder("test") = UNION {PairOf("test", <<>>, id) : id \in Range(partition.test)}
        /\ \A id \in Range(partition.train), x \in Prefixes :
             /\ files[<<"train">> \o x \o id \o <<".tiff">>]
                  = [im_id |-> id, of |-> "im", flip |-> FlipOf(x)]
             /\ files[<<"train">> \o x \o id \o <<mask_suffix>>]
                  = [im_id |-> id, of |-> "mask", flip |-> FlipOf(x)]
             /\ PairOf("test", x, id) \cap DOMAIN files = {}
        /\ \A id \in Range(partition.test) :
             /\ files[<<"test">> \o id \o <<".tiff">>] = [im_id |-> id, of |-> "im", flip |-> <<>>]
             /\ files[<<"test">> \o id \o <<mask_suffix>>]
                  = [im_id |-> id, of |-> "mask", flip |-> <<>>]
             /\ \A x \in Prefixes : PairOf("train", x, id) \cap DOMAIN files = {}

\* C5, witness: a completed run with ids in both sets
C5_Witness ==
    /\ pc = "done"
    /\ Len(partition.train) >= 1 /\ Len(partition.test) >= 2

\* a completed run with 2 ids in train and 1 id in test
TwoAndOne == pc = "done" /\ Len(partition.train) = 2 /\ Len(partition.test) = 1

\* C6 as stated: a completed run with 2 ids in train and 1 id in test, started
\* on empty output directories, has written 8 files under train/ and 2 under
\* test/.
C6_EightAndTwo ==
    TwoAndOne =>
        /\ Cardinality(NamesUnder("train")) = 8
        /\ Cardinality(NamesUnder("test")) = 2

\* C6 as amended: such a run has written 16 files under train/ (8 for each id:
\* 4 images and 4 masks) and 2 under test/.
C6_SixteenAndTwo ==
    TwoAndOne =>
        /\ Cardinality(NamesUnder("train")) = 8 * Len(partition.train)
        /\ Cardinality(NamesUnder("train")) = 16
        /\ Cardinality(NamesUnder("test")) = 2

\* C6, witness: such a run has completed
C6_Witness == TwoAndOne /\ dirs = OutputDirs /\ LICENSE \in Range(img_dir)

\* C7: with largest_dimension > desired_size the run is rejected before any
\* directory is created, before the ids are listed or split and before any
\* sample is read or written.
C7_RejectedAtValidation ==
    largest_dimension > desired_size =>
        \/ pc = "mkdir"
        \/ /\ pc = "error"
           /\ list_ids = <<>> /\ files = Empty
           /\ partition = [train |-> <<>>, test |-> <<>>]

\* an input file of the id is absent
Missing(id) ==
    \/ id \o <<img_suffix>> \notin Range(img_dir)
    \/ id \o <<mask_suffix>> \notin mask_dir
ProcessingOrder == partition.train \o partition.test
WrittenIds == {files[p].im_id : p \in DOMAIN files}

\* the number of ids of the processing order that the loops have gone past
Passed ==
    IF pc = "train" \/ (pc = "error" /\ error.at = "train") THEN k - 1
    ELSE IF pc = "test" \/ (pc = "error" /\ error.at = "test")
         THEN Len(partition.train) + k - 1
    ELSE IF pc = "done" THEN Len(ProcessingOrder)
    ELSE 0
FileNotFound == {"FileNotFoundError: image", "FileNotFoundError: mask"}

\* C8: an id whose raw image or raw mask is absent is never skipped: no file of
\* it is written, no id after it in processing order is processed, the loops
\* never go past it, and the run that reaches it stops there with the error of
\* the absent file.
C8_MissingFileStopsRun ==
    \A i \in 1..Len(ProcessingOrder) :
        Missing(ProcessingOrder[i]) =>
            /\ \A j \in i..Len(ProcessingOrder) : ProcessingOrder[j] \notin WrittenIds
            /\ Passed < i
            /\ pc # "done"
            /\ (pc = "error" /\ error.at \in {"train", "test"} /\ Passed = i - 1)
                 => error.raised \in FileNotFound

\* C8, witness: the run stopped on an absent file after writing other ids
C8_Witness ==
    /\ pc = "error"
    /\ error.raised \in FileNotFound
    /\ files # Empty
    /\ \E i \in 2..Len(ProcessingOrder) :
         Missing(ProcessingOrder[i]) /\ i < Len(ProcessingOrder)
====
